---- MODULE Spec2Model ----
(***************************************************************************)
(* keyholderd, the multi-user SSH agent of keyholder/daemon.py.            *)
(*                                                                         *)
(* The state is the server's shared objects (the ordered key store, the    *)
(* agent lock and the policy mapping of the configuration) and, for each   *)
(* connection, the peer's credentials and the position of its worker in    *)
(* the receive loop.  A request frame whose bytes have all arrived is      *)
(* handled by one step, HandleOne, which is handle_one() from the read of  *)
(* the header to the write of the response.  A header that arrives without *)
(* its payload leaves the worker inside rfile.read(size), and that is a    *)
(* state of its own (pc = "tail").                                         *)
(***************************************************************************)
EXTENDS Integers, Sequences, FiniteSets, TLC

\* ------------------------------------------------------------ constants

AGENT_MAX_LEN == 262144

\* SshAgentRequestHeader.sizeof(): the 4-byte big-endian length
HeaderSize == 4

\* the connections the model follows, each served by a worker of its own
Conns == {1, 2}

\* request frames a peer sends behind a header whose payload it never sent
MaxSwallow == 1

\* ------------------------------------------------------------ peers

NoPeer == [user |-> "", groups |-> {}]

Peers ==
  { [user |-> "root",   groups |-> {"root"}],
    [user |-> "deploy", groups |-> {"ops", "deploy"}],
    [user |-> "guest",  groups |-> {"guests"}] }

\* ------------------------------------------------------------ keys

BlobA == [algo |-> "ssh-ed25519", pub |-> 1]
BlobB == [algo |-> "ssh-rsa", pub |-> 2]
Blobs == {BlobA, BlobB}

\* the SHA-256 digest of the public-key blob
ssh_fingerprint(blob) == <<"SHA256", blob.algo, blob.pub>>

Fingerprints == { ssh_fingerprint(b) : b \in Blobs }

\* a comment is its text and its length in bytes
CommentShort == [text |-> "k1", len |-> 2]
CommentLong  == [text |-> "long", len |-> 140000]

\* SshEd25519Key(enc_a, k_enc_a, comment) and SshRSAKey(tup, comment): the
\* loaded key, with the public blob and the fingerprint derived from the
\* key material
LoadKey(identity) ==
  LET blob == [algo |-> identity.key_type, pub |-> identity.key.pub] IN
  [ key_type    |-> identity.key_type,
    key_blob    |-> blob,
    comment     |-> identity.key.comment,
    fingerprint |-> ssh_fingerprint(blob) ]

\* both constructors raise TypeError on key material that is no key
KeyTypeError(identity) == ~identity.key.valid

\* ------------------------------------------------------------ policy
\* config.perms maps a fingerprint to a non-empty set of groups; the model
\* holds it as the set of its (fingerprint, group) grants.

Policies ==
  { {},
    { <<ssh_fingerprint(BlobA), "ops">> },
    { <<ssh_fingerprint(BlobA), "ops">>,
      <<ssh_fingerprint(BlobB), "guests">>,
      <<ssh_fingerprint(BlobB), "ops">> } }

\* perms.get(key_digest, set())
PermsGet(p, fp) == { g \in {"root", "ops", "deploy", "guests"} : <<fp, g>> \in p }

\* ------------------------------------------------------------ the lock

Passphrases == {"hunter2", "wrong"}

Unlocked == [locked |-> FALSE, pass |-> ""]

is_locked(l) == l.locked

\* SshLock.lock(passphrase): the new cell and whether it succeeded
SshLock_lock(l, p) ==
  IF l.locked THEN [ok |-> FALSE, lock |-> l]
  ELSE [ok |-> TRUE, lock |-> [locked |-> TRUE, pass |-> p]]

\* SshLock.unlock(passphrase)
SshLock_unlock(l, p) ==
  IF l.locked /\ l.pass = p THEN [ok |-> TRUE, lock |-> Unlocked]
  ELSE [ok |-> FALSE, lock |-> l]


\* ------------------------------------------------------------ wire sizes
\* Lengths in bytes of the encoded structures: a string or byte array is a
\* 32-bit length and its bytes.

AlgoLen(algo) ==
  CASE algo = "ssh-ed25519" -> 11
    [] algo = "ssh-rsa" -> 7
    [] OTHER -> 19

\* the public-key blob: algorithm name, then the public parameters
BlobLen(blob) ==
  IF blob.algo = "ssh-ed25519" THEN (4 + 11) + (4 + 32)
  ELSE (4 + 7) + (4 + 3) + (4 + 257)

\* the private-key fields of ADD_IDENTITY
KeyFieldsLen(key_type) ==
  CASE key_type = "ssh-ed25519" -> (4 + 32) + (4 + 64)
    [] key_type = "ssh-rsa" -> (4 + 257) + (4 + 3) + (4 + 256) + (4 + 128)
                               + (4 + 129) + (4 + 129)
    [] OTHER -> (4 + 65) + (4 + 32)

PassLen(p) == IF p = "hunter2" THEN 7 ELSE 5

\* the signature blob: algorithm tag, then the raw signature
SigLen(sig) ==
  CASE sig.algo = "ssh-ed25519" -> (4 + 11) + (4 + 64)
    [] sig.algo = "ssh-rsa" -> (4 + 7) + (4 + 256)
    [] OTHER -> (4 + 12) + (4 + 256)

\* ------------------------------------------------------------ requests

\* the data of a SIGN_REQUEST: the fields of an SSH_MSG_USERAUTH_REQUEST
\* public-key payload, or bytes that are none
AuthData ==
  [ session_id |-> 7, msg_type |-> 50, user |-> "deploy",
    service |-> "ssh-connection", method |-> "publickey", has_sig |-> TRUE,
    len |-> 150 ]
RandomData ==
  [ session_id |-> 0, msg_type |-> 114, user |-> "", service |-> "",
    method |-> "", has_sig |-> FALSE, len |-> 16 ]

\* SshRequestPublicKeySignature.parse(data) does not raise ConstructError
ParsesAsSignatureRequest(data) ==
  /\ data.msg_type = 50
  /\ data.method = "publickey"
  /\ data.has_sig

AddIdentity(key_type, pub, valid, comment) ==
  [ code |-> "ADD_IDENTITY", key_type |-> key_type,
    key |-> [pub |-> pub, valid |-> valid, comment |-> comment] ]

SignRequest(blob, data, flags) ==
  [ code |-> "SIGN_REQUEST", key_blob |-> blob, data |-> data, flags |-> flags ]

AddRequests ==
  { AddIdentity("ssh-ed25519", 1, TRUE, CommentShort),
    AddIdentity("ssh-ed25519", 1, TRUE, CommentLong),
    AddIdentity("ssh-rsa", 2, TRUE, CommentLong),
    AddIdentity("ssh-rsa", 2, FALSE, CommentShort),
    AddIdentity("ecdsa-sha2-nistp256", 3, TRUE, CommentShort) }

SignRequests ==
  { SignRequest(BlobA, AuthData, 0),
    SignRequest(BlobA, RandomData, 0),
    SignRequest(BlobB, AuthData, 0),
    SignRequest(BlobB, AuthData, 2),
    SignRequest(BlobB, RandomData, 0) }

Requests ==
  { [code |-> "REQUEST_IDENTITIES"], [code |-> "REMOVE_ALL_IDENTITIES"],
    [code |-> "ADD_SMARTCARD_KEY"] }
  \cup AddRequests
  \cup { [code |-> "REMOVE_IDENTITY", key_blob |-> b] : b \in Blobs }
  \cup SignRequests
  \cup { [code |-> "LOCK", passphrase |-> p] : p \in Passphrases }
  \cup { [code |-> "UNLOCK", passphrase |-> p] : p \in Passphrases }

\* the payload length of an encoded request: the code byte and the fields
RequestLen(req) ==
  CASE req.code = "ADD_IDENTITY" ->
         1 + (4 + AlgoLen(req.key_type)) + KeyFieldsLen(req.key_type)
           + (4 + req.key.comment.len)
    [] req.code = "REMOVE_IDENTITY" -> 1 + (4 + BlobLen(req.key_blob))
    [] req.code = "SIGN_REQUEST" ->
         1 + (4 + BlobLen(req.key_blob)) + (4 + req.data.len) + 4
    [] req.code \in {"LOCK", "UNLOCK"} -> 1 + (4 + PassLen(req.passphrase))
    [] OTHER -> 1

\* payload bytes that are no request
Unparseable == [code |-> "UNPARSEABLE"]

\* a frame as the peer sends it: the length its header declares and the
\* payload that follows
Frames ==
  { [len |-> RequestLen(r), body |-> r] : r \in Requests }
  \cup { [len |-> 0, body |-> Unparseable], [len |-> 3, body |-> Unparseable] }

\* declared lengths of headers sent ahead of their payload
OversizeLens == {300000, 1048576}

\* ------------------------------------------------------------ responses

FAILURE == [code |-> "FAILURE", message |-> << >>]
SUCCESS == [code |-> "SUCCESS", message |-> << >>]

RECURSIVE IdentitiesLen(_)
IdentitiesLen(ids) ==
  IF ids = << >> THEN 0
  ELSE (4 + BlobLen(ids[1].key_blob)) + (4 + ids[1].comment.len)
       + IdentitiesLen(Tail(ids))

\* len(SshAgentResponse.build(...)): the header, the code byte, the message
ResponseLen(resp) ==
  HeaderSize + 1 +
  ( CASE resp.code = "IDENTITIES_ANSWER" -> 4 + IdentitiesLen(resp.message)
      [] resp.code = "SIGN_RESPONSE" -> 4 + SigLen(resp.message[1])
      [] OTHER -> 0 )

\* key.sign(data, flags): RSA picks the hash from the flags
Sign(key, data, flags) ==
  [ algo |-> IF key.key_type = "ssh-rsa"
             THEN (IF flags = 2 THEN "rsa-sha2-256"
                   ELSE IF flags = 4 THEN "rsa-sha2-512" ELSE "ssh-rsa")
             ELSE key.key_type,
    signer |-> key.fingerprint, data |-> data, flags |-> flags ]


\* ------------------------------------------------------------ state

VARIABLES
  keys,     \* server.keys: the OrderedDict, as the sequence of its values
  lock,     \* server.lock
  perms,    \* server.config.perms
  peer,     \* per connection: (user, groups) read by setup()
  pc,       \* per connection: "closed", "head" (in rfile.read of the header),
            \* "tail" (in rfile.read(size) of the payload) or "handler"
            \* (between two statements of a handler)
  size,     \* per connection at "tail": the length the header declared
  swallowed,\* per connection at "tail": request frames read as that payload
  owed,     \* per connection: requests received minus response frames
            \* handed to wfile.write
  reply,    \* the handle_one() call the latest step made, if it made one:
            \* the state it found, the frame it read, what it did and wrote
  job,      \* per connection: the locals of a handler that is between two
            \* of the points where it reaches the shared state
  wshut,    \* per connection: the peer has shut down its reading side
  wfailed,  \* per connection: a wfile.write of a response has raised
  key_dir,  \* the *.pub files of the key directory, by file stem
  auth_dir, \* the *.y*ml files of the authorization directory, in glob order
  built,    \* the latest get_key_perms() call that ended, while the files
            \* are as it left them: whether it returned or raised, whether
            \* the files stayed as they were all through the call, and
            \* whether it caught an exception of a call nested in it
  daemon,   \* main(): "starting" (in SshAgentConfig(), line 478),
            \* "configured" (before line 479), "serving" (sighandle is
            \* installed), "terminated" (an exception ended main()) or
            \* "killed" (SIGHUP came before sighandle was installed)
  reloads   \* the reload() calls under way in the main thread, innermost
            \* last: the locals of get_key_perms() and get_key_fingerprints()

\* the files and the life of the daemon, which the workers leave alone
cfgvars == <<key_dir, auth_dir, built, daemon, reloads>>

vars == <<keys, lock, perms, peer, pc, size, swallowed, owed, reply, job,
          wshut, wfailed, cfgvars>>

\* no call was completed by the latest step
NoReply ==
  [ conn |-> 0, peer |-> NoPeer, frame |-> [len |-> 0, body |-> Unparseable],
    keys |-> << >>, lock |-> Unlocked, perms |-> {},
    payload_read |-> 0, swallowed |-> 0, steps |-> << >>, policies |-> {},
    changed |-> {}, key |-> << >>, returned |-> << >>, written |-> << >> ]

\* no handler call is under way on the connection
NoJob ==
  [ op |-> "none", pos |-> "none",
    frame |-> [len |-> 0, body |-> Unparseable],
    di_current |-> << >>, mutated |-> FALSE, key |-> << >>,
    identities |-> << >>, steps |-> << >>, policies |-> {},
    changed |-> {} ]

\* an empty directory
NoFiles == << >>

\* get_key_perms() has not returned since the files were written
NotBuilt ==
  [called |-> FALSE, still |-> FALSE, caught |-> FALSE, raised |-> FALSE]

\* ------------------------------------------------------------ key store

\* the position of key_digest in the OrderedDict, 0 when absent
KeyIndex(ks, key_digest) ==
  IF \E i \in 1..Len(ks) : ks[i].fingerprint = key_digest
  THEN CHOOSE i \in 1..Len(ks) : ks[i].fingerprint = key_digest
  ELSE 0

\* an insertion that moves a present fingerprint to the end
KeysSet_MoveToEnd(ks, key) ==
  Append(SelectSeq(ks, LAMBDA k : k.fingerprint # key.fingerprint), key)

\* keys[key.fingerprint] = key: a present fingerprint keeps its position
KeysSet(ks, key) ==
  LET i == KeyIndex(ks, key.fingerprint) IN
  IF i = 0 THEN Append(ks, key) ELSE [ks EXCEPT ![i] = key]

\* a deletion that drops the key and every key inserted after it
KeysDel_Truncate(ks, key_digest) ==
  SubSeq(ks, 1, KeyIndex(ks, key_digest) - 1)

\* del keys[key_digest]
KeysDel(ks, key_digest) ==
  SelectSeq(ks, LAMBDA k : k.fingerprint # key_digest)

\* ------------------------------------------------------------ handlers
\* The server is a ThreadingUnixStreamServer: one worker thread per
\* connection, no lock around the handlers.  ADD_IDENTITY,
\* REMOVE_ALL_IDENTITIES, LOCK, UNLOCK and the codes without a handler reach
\* the shared state (server.keys, server.lock) at one point, so such a call
\* is one step.  It yields the response it returns (or that it raised
\* SshAgentProtocolError), the key store and lock it leaves, and the steps
\* it took.

Returned(resp, ks, lk, steps) ==
  [raised |-> FALSE, resp |-> resp, keys |-> ks, lock |-> lk, steps |-> steps]

Raised(steps) ==
  [raised |-> TRUE, resp |-> FAILURE, keys |-> keys, lock |-> lock,
   steps |-> steps]

is_superuser(p) == p.user = "root"

handle_add_identity(p, identity) ==
  IF ~is_superuser(p) THEN Returned(FAILURE, keys, lock, << >>)
  ELSE IF identity.key_type \notin {"ssh-rsa", "ssh-ed25519"}
       THEN Returned(FAILURE, keys, lock, << >>)
  ELSE IF KeyTypeError(identity) THEN Returned(FAILURE, keys, lock, << >>)
  ELSE Returned(SUCCESS, KeysSet(keys, LoadKey(identity)), lock, <<"insert">>)

\* handle_remove_all_identities() without the superuser check
handle_remove_all_identities_AnyUser(p) ==
  Returned(SUCCESS, << >>, lock, <<"clear">>)

\* handle_remove_all_identities() failing on a store that is already empty
handle_remove_all_identities_FailsWhenEmpty(p) ==
  IF ~is_superuser(p) \/ keys = << >> THEN Returned(FAILURE, keys, lock, << >>)
  ELSE Returned(SUCCESS, << >>, lock, <<"clear">>)

handle_remove_all_identities(p) ==
  IF ~is_superuser(p) THEN Returned(FAILURE, keys, lock, << >>)
  ELSE Returned(SUCCESS, << >>, lock, <<"clear">>)

handle_lock(p, passphrase) ==
  IF ~is_superuser(p) THEN Returned(FAILURE, keys, lock, << >>)
  ELSE LET r == SshLock_lock(lock, passphrase) IN
       IF r.ok THEN Returned(SUCCESS, keys, r.lock, <<"lock">>)
       ELSE Returned(FAILURE, keys, r.lock, <<"lock">>)

\* handle_unlock() answering SUCCESS whatever SshLock.unlock() returned
handle_unlock_IgnoreResult(p, passphrase) ==
  IF ~is_superuser(p) THEN Returned(FAILURE, keys, lock, << >>)
  ELSE Returned(SUCCESS, keys, SshLock_unlock(lock, passphrase).lock,
                <<"unlock">>)

handle_unlock(p, passphrase) ==
  IF ~is_superuser(p) THEN Returned(FAILURE, keys, lock, << >>)
  ELSE LET r == SshLock_unlock(lock, passphrase) IN
       IF r.ok THEN Returned(SUCCESS, keys, r.lock, <<"unlock">>)
       ELSE Returned(FAILURE, keys, r.lock, <<"unlock">>)

handle_not_implemented(code) == Returned(FAILURE, keys, lock, << >>)

\* ------------------------------------------------------------ one request

\* recv_request() on a frame whose bytes have all arrived: the payload is
\* read, then the declared size is checked, then the frame is parsed.
recv_request(frame) ==
  [ payload_read |-> frame.len,
    error |-> IF frame.len > AGENT_MAX_LEN THEN "too big"
              ELSE IF frame.len = 0 \/ frame.body = Unparseable THEN "invalid"
              ELSE "",
    request |-> frame.body ]

\* send_response() without the test of the built frame's length
send_response_NoLimit(resp) == [raised |-> FALSE, written |-> <<resp>>]

\* send_response(code, message): the frames handed to wfile.write, or that it
\* raised SshAgentProtocolError before writing anything
send_response(resp) ==
  IF ResponseLen(resp) > AGENT_MAX_LEN
  THEN [raised |-> TRUE, written |-> << >>]
  ELSE [raised |-> FALSE, written |-> <<resp>>]

\* lines 269-273 of handle_one(): the response is sent, or FAILURE when it
\* could not be built or is too long
send_response_or_failure(resp) ==
  LET tx == send_response(resp) IN
  IF tx.raised THEN send_response(FAILURE).written ELSE tx.written

\* the codes whose handler reaches the shared state more than once and is
\* taken from one such point to the next
StepwiseCodes == {"REQUEST_IDENTITIES", "SIGN_REQUEST", "REMOVE_IDENTITY"}

\* getattr(self, 'handle_' + code.name.lower(), None) and the call, for the
\* handlers that are one step
Dispatch(p, req) ==
  CASE req.code = "ADD_IDENTITY" -> handle_add_identity(p, req)
    [] req.code = "REMOVE_ALL_IDENTITIES" -> handle_remove_all_identities(p)
    [] req.code = "LOCK" -> handle_lock(p, req.passphrase)
    [] req.code = "UNLOCK" -> handle_unlock(p, req.passphrase)
    [] OTHER -> handle_not_implemented(req.code)

\* handle_one() around a handler that is one step: what is left in the store
\* and the lock, what the handler returned and what is written
handle_one(p, frame) ==
  LET rx == recv_request(frame) IN
  IF rx.error # ""
  THEN [ keys |-> keys, lock |-> lock, payload_read |-> rx.payload_read,
         steps |-> << >>, returned |-> << >>,
         written |-> send_response(FAILURE).written ]
  ELSE LET h == Dispatch(p, rx.request) IN
       IF h.raised
       THEN [ keys |-> keys, lock |-> lock, payload_read |-> rx.payload_read,
              steps |-> h.steps, returned |-> << >>,
              written |-> send_response(FAILURE).written ]
       ELSE [ keys |-> h.keys, lock |-> h.lock,
              payload_read |-> rx.payload_read, steps |-> h.steps,
              returned |-> <<h.resp>>,
              written |-> send_response_or_failure(h.resp) ]

\* ------------------------------------------------------------ workers
\* handle_request_identities(), handle_sign_request() and
\* handle_remove_identity() reach the shared state several times (the
\* iterator of server.keys.items(), server.lock, server.config.perms, the
\* lookup and the del), and the other threads run in between.  A job holds
\* the locals of such a call between two of these points:
\*   op          "list", "sign" or "remove"
\*   pos         the point the worker comes to next: "next" (the iterator's
\*               next()), "is_locked" (line 220), "perms" (line 226), "sign"
\*               (line 359) or "del" (line 322)
\*   frame       the request
\*   di_current  the fingerprint the OrderedDict iterator yields next
\*   mutated     the OrderedDict has gained or lost a fingerprint since the
\*               iterator was made
\*   key         the key object the iterator yielded or the lookup returned
\*   identities  the list built so far
\*   steps       the steps taken so far
\*   policies    the mappings the call has read from config.perms
\*   changed     what other threads have changed since the call began:
\*               "lock" (server.lock), "data" (server.keys or config.perms)

\* the fingerprints of the OrderedDict, in order
KeysFingerprints(ks) == [i \in 1..Len(ks) |-> ks[i].fingerprint]

\* another thread leaves the store ks, the lock lk and the mapping pm while
\* the call with locals j is under way
Disturb(j, ks, lk, pm) ==
  IF j.op = "none" THEN j
  ELSE [ j EXCEPT
           !.mutated = IF j.op = "list"
                       THEN @ \/ KeysFingerprints(ks) # KeysFingerprints(keys)
                       ELSE @,
           !.changed = @ \cup (IF lk # lock THEN {"lock"} ELSE {})
                         \cup (IF ks # keys \/ pm # perms THEN {"data"}
                               ELSE {}) ]

\* is_allowed() without the group check
is_allowed_groups_AnyUser(p, key_digest) == TRUE

\* lines 226-227 of is_allowed(): config.perms is read and the groups compared
is_allowed_groups(p, key_digest) ==
  (p.groups \cap PermsGet(perms, key_digest)) # {}

\* lines 220-224 of is_allowed(): "deny" while the agent is locked, "grant"
\* to the superuser, "groups" when lines 226-227 decide
is_allowed_lock(p) ==
  IF is_locked(lock) THEN "deny"
  ELSE IF is_superuser(p) THEN "grant"
  ELSE "groups"

\* ------------------------------------------------------------ actions

Init ==
  /\ keys = << >>
  /\ lock = Unlocked
  /\ perms \in Policies
  /\ peer = [c \in Conns |-> NoPeer]
  /\ pc = [c \in Conns |-> "closed"]
  /\ size = [c \in Conns |-> 0]
  /\ swallowed = [c \in Conns |-> 0]
  /\ owed = [c \in Conns |-> 0]
  /\ reply = NoReply
  /\ job = [c \in Conns |-> NoJob]
  /\ wshut = [c \in Conns |-> FALSE]
  /\ wfailed = [c \in Conns |-> FALSE]
  /\ key_dir = NoFiles
  /\ auth_dir = << >>
  /\ built = NotBuilt
  /\ daemon = "serving"
  /\ reloads = << >>

\* SshAgentConfig.reload(): the mapping built from the files is published
Reload(p) ==
  /\ perms' = p
  /\ job' = [d \in Conns |-> Disturb(job[d], keys, lock, p)]
  /\ reply' = NoReply
  /\ UNCHANGED <<keys, lock, peer, pc, size, swallowed, owed, wshut, wfailed>>
  /\ UNCHANGED cfgvars

\* a connection is accepted and setup() reads the peer's credentials
Accept(c, p) ==
  /\ pc[c] = "closed"
  /\ peer' = [peer EXCEPT ![c] = p]
  /\ pc' = [pc EXCEPT ![c] = "head"]
  /\ wshut' = [wshut EXCEPT ![c] = FALSE]
  /\ wfailed' = [wfailed EXCEPT ![c] = FALSE]
  /\ reply' = NoReply
  /\ UNCHANGED <<keys, lock, perms, size, swallowed, owed, job>>
  /\ UNCHANGED cfgvars

\* wfile.write() of the frames: OSError, which send_response() logs and
\* drops, when the peer has shut down its reading side
Write(c, written) ==
  wfailed' = [wfailed EXCEPT ![c] = @ \/ (wshut[c] /\ written # << >>)]

\* the worker has read frame, whose handler is one step, handles it and
\* hands the response to wfile.write; the calls under way on the other
\* connections find the store and the lock changed
Complete(c, frame, nswallowed) ==
  LET r == handle_one(peer[c], frame) IN
  /\ keys' = r.keys
  /\ lock' = r.lock
  /\ owed' = [owed EXCEPT ![c] = @ + 1 - Len(r.written)]
  /\ reply' = [ NoReply EXCEPT
                  !.conn = c, !.peer = peer[c], !.frame = frame,
                  !.keys = keys, !.lock = lock, !.perms = perms,
                  !.payload_read = r.payload_read, !.swallowed = nswallowed,
                  !.steps = r.steps, !.returned = r.returned,
                  !.written = r.written ]
  /\ Write(c, r.written)
  /\ job' = [d \in Conns |-> Disturb(job[d], r.keys, r.lock, perms)]
  /\ pc' = [pc EXCEPT ![c] = "head"]
  /\ size' = [size EXCEPT ![c] = 0]
  /\ swallowed' = [swallowed EXCEPT ![c] = 0]
  /\ UNCHANGED <<perms, peer, wshut>>
  /\ UNCHANGED cfgvars

\* handle(): the worker reads a frame whose handler reaches the shared state
\* once, and handle_one() answers it
HandleOne(c, f) ==
  /\ pc[c] = "head"
  /\ f.body = Unparseable \/ f.body.code \notin StepwiseCodes
  /\ Complete(c, f, 0)

\* a handler goes on to the next point where it reaches the shared state
Step(c, j) ==
  /\ job' = [job EXCEPT ![c] = j]
  /\ pc' = [pc EXCEPT ![c] = "handler"]
  /\ reply' = NoReply
  /\ UNCHANGED <<keys, lock, perms, peer, size, swallowed, owed>>
  /\ UNCHANGED <<wshut, wfailed>>
  /\ UNCHANGED cfgvars

\* the handler with locals j returns resp, or raises SshAgentProtocolError,
\* and handle_one() sends: the call is over.  ks is the store it leaves.
Finish(c, j, raised, resp, ks) ==
  LET written == IF raised THEN send_response(FAILURE).written
                 ELSE send_response_or_failure(resp)
  IN
  /\ keys' = ks
  /\ reply' = [ NoReply EXCEPT
                  !.conn = c, !.peer = peer[c], !.frame = j.frame,
                  !.keys = keys, !.lock = lock, !.perms = perms,
                  !.payload_read = j.frame.len,
                  !.steps = j.steps, !.policies = j.policies,
                  !.changed = j.changed, !.key = j.key,
                  !.returned = IF raised THEN << >> ELSE <<resp>>,
                  !.written = written ]
  /\ owed' = [owed EXCEPT ![c] = @ + 1 - Len(written)]
  /\ Write(c, written)
  /\ pc' = [pc EXCEPT ![c] = "head"]
  /\ job' = [ d \in Conns |->
                IF d = c THEN NoJob ELSE Disturb(job[d], ks, lock, perms) ]
  /\ UNCHANGED <<lock, perms, peer, size, swallowed, wshut>>
  /\ UNCHANGED cfgvars

\* an exception that neither the handler nor handle_one() nor handle()
\* catches: nothing is written, the server logs it and shuts the request down
Abort(c, j, error) ==
  /\ reply' = [ NoReply EXCEPT
                  !.conn = c, !.peer = peer[c], !.frame = j.frame,
                  !.keys = keys, !.lock = lock, !.perms = perms,
                  !.payload_read = j.frame.len,
                  !.steps = Append(j.steps, error), !.policies = j.policies,
                  !.changed = j.changed, !.key = j.key ]
  /\ pc' = [pc EXCEPT ![c] = "closed"]
  /\ peer' = [peer EXCEPT ![c] = NoPeer]
  /\ job' = [job EXCEPT ![c] = NoJob]
  /\ owed' = [owed EXCEPT ![c] = 0]
  /\ UNCHANGED <<keys, lock, perms, size, swallowed, wshut, wfailed>>
  /\ UNCHANGED cfgvars

\* the locals of a call that has just read frame
NewJob(op, frame) ==
  [NoJob EXCEPT !.op = op, !.frame = frame]

IdentityOf(key) == [key_blob |-> key.key_blob, comment |-> key.comment]

\* handle_request_identities(): identities = [] and the iterator of
\* self.server.keys.items() is made
ListBegin(c, f) ==
  /\ pc[c] = "head"
  /\ f.body # Unparseable
  /\ f.body.code = "REQUEST_IDENTITIES"
  /\ Step(c, [ NewJob("list", f) EXCEPT
                 !.pos = "next",
                 !.di_current = IF keys = << >> THEN << >>
                                ELSE <<keys[1].fingerprint>> ])

\* line 278: the iterator yields (fingerprint, key) and moves on
ListNext(c) ==
  /\ pc[c] = "handler"
  /\ job[c].op = "list"
  /\ job[c].pos = "next"
  /\ job[c].di_current # << >>
  /\ ~job[c].mutated
  /\ LET i == KeyIndex(keys, job[c].di_current[1]) IN
     Step(c, [ job[c] EXCEPT
                 !.pos = "is_locked",
                 !.key = <<keys[i]>>,
                 !.di_current = IF i < Len(keys)
                                THEN <<keys[i + 1].fingerprint>> ELSE << >> ])

\* line 278: the iterator finds the OrderedDict mutated and raises
\* RuntimeError
ListRaise(c) ==
  /\ pc[c] = "handler"
  /\ job[c].op = "list"
  /\ job[c].pos = "next"
  /\ job[c].di_current # << >>
  /\ job[c].mutated
  /\ Abort(c, job[c], "RuntimeError")

\* line 278: the iterator is exhausted; line 286 returns
\* (IDENTITIES_ANSWER, identities)
ListEnd(c) ==
  /\ pc[c] = "handler"
  /\ job[c].op = "list"
  /\ job[c].pos = "next"
  /\ job[c].di_current = << >>
  /\ Finish(c, job[c], FALSE,
            [code |-> "IDENTITIES_ANSWER", message |-> job[c].identities],
            keys)

\* is_allowed() has returned allowed for the yielded key, having read the
\* mappings in policy from config.perms: lines 279-285 skip the key or append
\* its identity, and the loop goes to next()
Checked(j, policy, allowed) ==
  [ j EXCEPT
      !.pos = "next",
      !.steps = Append(@, "is_allowed"),
      !.policies = @ \cup policy,
      !.identities = IF allowed THEN Append(@, IdentityOf(j.key[1])) ELSE @,
      !.key = << >> ]

\* line 279 into is_allowed(), lines 220-224: server.lock is read
ListIsLocked(c) ==
  /\ pc[c] = "handler"
  /\ job[c].op = "list"
  /\ job[c].pos = "is_locked"
  /\ LET a == is_allowed_lock(peer[c]) IN
     IF a = "groups" THEN Step(c, [job[c] EXCEPT !.pos = "perms"])
     ELSE Step(c, Checked(job[c], {}, a = "grant"))

\* is_allowed(), lines 226-227: server.config.perms is read
ListPerms(c) ==
  /\ pc[c] = "handler"
  /\ job[c].op = "list"
  /\ job[c].pos = "perms"
  /\ Step(c, Checked(job[c], {perms},
                     is_allowed_groups(peer[c], job[c].key[1].fingerprint)))

\* handle_sign_request() looking the key up before it parses the data
SignBegin_LookupFirst(c, f) ==
  /\ pc[c] = "head"
  /\ f.body # Unparseable
  /\ f.body.code = "SIGN_REQUEST"
  /\ LET i == KeyIndex(keys, ssh_fingerprint(f.body.key_blob))
         j == NewJob("sign", f)
     IN IF i = 0
        THEN Finish(c, [j EXCEPT !.steps = <<"lookup">>], FALSE, FAILURE, keys)
        ELSE IF ~ParsesAsSignatureRequest(f.body.data)
        THEN Finish(c, [j EXCEPT !.steps = <<"lookup", "parse_data">>],
                    TRUE, FAILURE, keys)
        ELSE Step(c, [ j EXCEPT !.pos = "is_locked", !.key = <<keys[i]>>,
                                !.steps = <<"lookup", "parse_data">> ])

\* handle_sign_request() up to line 355: the data is parsed (an
\* SshAgentProtocolError otherwise), and the key is looked up or FAILURE is
\* returned
SignBegin(c, f) ==
  /\ pc[c] = "head"
  /\ f.body # Unparseable
  /\ f.body.code = "SIGN_REQUEST"
  /\ LET i == KeyIndex(keys, ssh_fingerprint(f.body.key_blob))
         j == NewJob("sign", f)
     IN IF ~ParsesAsSignatureRequest(f.body.data)
        THEN Finish(c, [j EXCEPT !.steps = <<"parse_data">>],
                    TRUE, FAILURE, keys)
        ELSE IF i = 0
        THEN Finish(c, [j EXCEPT !.steps = <<"parse_data", "lookup">>],
                    FALSE, FAILURE, keys)
        ELSE Step(c, [ j EXCEPT !.pos = "is_locked", !.key = <<keys[i]>>,
                                !.steps = <<"parse_data", "lookup">> ])

\* is_allowed() has returned allowed for the looked-up key, having read the
\* mappings in policy from config.perms: line 357 goes on to sign or line 363
\* returns FAILURE
SignChecked(c, policy, allowed) ==
  LET j == [ job[c] EXCEPT
               !.steps = Append(@, "is_allowed"),
               !.policies = @ \cup policy ]
  IN IF allowed THEN Step(c, [j EXCEPT !.pos = "sign"])
     ELSE Finish(c, j, FALSE, FAILURE, keys)

\* handle_sign_request() going on to sign without asking is_allowed()
SignIsLocked_NoCheck(c) ==
  /\ pc[c] = "handler"
  /\ job[c].op = "sign"
  /\ job[c].pos = "is_locked"
  /\ Step(c, [job[c] EXCEPT !.pos = "sign"])

\* line 357 into is_allowed(), lines 220-224: server.lock is read
SignIsLocked(c) ==
  /\ pc[c] = "handler"
  /\ job[c].op = "sign"
  /\ job[c].pos = "is_locked"
  /\ LET a == is_allowed_lock(peer[c]) IN
     IF a = "groups" THEN Step(c, [job[c] EXCEPT !.pos = "perms"])
     ELSE SignChecked(c, {}, a = "grant")

\* is_allowed(), lines 226-227: server.config.perms is read
SignPerms(c) ==
  /\ pc[c] = "handler"
  /\ job[c].op = "sign"
  /\ job[c].pos = "perms"
  /\ SignChecked(c, {perms},
                 is_allowed_groups(peer[c], job[c].key[1].fingerprint))

\* lines 359-360: key.sign(request.data, request.flags) with the key that
\* was looked up, and the SIGN_RESPONSE
SignSign(c) ==
  /\ pc[c] = "handler"
  /\ job[c].op = "sign"
  /\ job[c].pos = "sign"
  /\ Finish(c, [job[c] EXCEPT !.steps = Append(@, "sign")], FALSE,
            [ code |-> "SIGN_RESPONSE",
              message |-> <<Sign(job[c].key[1], job[c].frame.body.data,
                                 job[c].frame.body.flags)>> ],
            keys)

\* handle_remove_identity() answering SUCCESS for a key that is not loaded
RemoveBegin_MissingOk(c, f) ==
  /\ pc[c] = "head"
  /\ f.body # Unparseable
  /\ f.body.code = "REMOVE_IDENTITY"
  /\ LET j == NewJob("remove", f) IN
     IF ~is_superuser(peer[c]) THEN Finish(c, j, FALSE, FAILURE, keys)
     ELSE Finish(c, [j EXCEPT !.steps = <<"delete">>], FALSE, SUCCESS,
                 KeysDel(keys, ssh_fingerprint(f.body.key_blob)))

\* handle_remove_identity() up to line 321: FAILURE to a peer that is not
\* the superuser, and to a fingerprint that is not in the store
RemoveBegin(c, f) ==
  /\ pc[c] = "head"
  /\ f.body # Unparseable
  /\ f.body.code = "REMOVE_IDENTITY"
  /\ LET j == NewJob("remove", f) IN
     IF ~is_superuser(peer[c]) THEN Finish(c, j, FALSE, FAILURE, keys)
     ELSE IF KeyIndex(keys, ssh_fingerprint(f.body.key_blob)) = 0
     THEN Finish(c, [j EXCEPT !.steps = <<"lookup">>], FALSE, FAILURE, keys)
     ELSE Step(c, [j EXCEPT !.pos = "del", !.steps = <<"lookup">>])

\* line 322: del self.server.keys[key_digest], and SUCCESS
RemoveDel(c) ==
  /\ pc[c] = "handler"
  /\ job[c].op = "remove"
  /\ job[c].pos = "del"
  /\ KeyIndex(keys, ssh_fingerprint(job[c].frame.body.key_blob)) # 0
  /\ Finish(c, [job[c] EXCEPT !.steps = <<"delete">>], FALSE, SUCCESS,
            KeysDel(keys, ssh_fingerprint(job[c].frame.body.key_blob)))

\* line 322: another thread has removed the key since line 321; the del
\* raises KeyError inside the try of line 320, and lines 325-326 return
\* FAILURE
RemoveMissing(c) ==
  /\ pc[c] = "handler"
  /\ job[c].op = "remove"
  /\ job[c].pos = "del"
  /\ KeyIndex(keys, ssh_fingerprint(job[c].frame.body.key_blob)) = 0
  /\ Finish(c, [job[c] EXCEPT !.steps = Append(@, "KeyError")], FALSE,
            FAILURE, keys)

\* the worker reads a header declaring n bytes and enters rfile.read(n);
\* the peer has sent no payload yet
RecvHead(c, n) ==
  /\ pc[c] = "head"
  /\ pc' = [pc EXCEPT ![c] = "tail"]
  /\ size' = [size EXCEPT ![c] = n]
  /\ reply' = NoReply
  /\ UNCHANGED <<keys, lock, perms, peer, swallowed, owed, job, wshut, wfailed>>
  /\ UNCHANGED cfgvars

\* inside rfile.read(size): the peer sends its next request frame, whose
\* header and payload are read as payload bytes of the pending frame.  The
\* peer stops while the frames sent, at their largest, leave the declared
\* payload short.
RecvTailFrame(c, f) ==
  /\ pc[c] = "tail"
  /\ swallowed[c] < MaxSwallow
  /\ (swallowed[c] + 1) * (HeaderSize + AGENT_MAX_LEN) < size[c]
  /\ swallowed' = [swallowed EXCEPT ![c] = @ + 1]
  /\ reply' = NoReply
  /\ UNCHANGED <<keys, lock, perms, peer, pc, size, owed, job, wshut, wfailed>>
  /\ UNCHANGED cfgvars

\* inside rfile.read(size): the peer sends the bytes still missing, the
\* read returns and handle_one() goes on
RecvTailRest(c) ==
  /\ pc[c] = "tail"
  /\ Complete(c, [len |-> size[c], body |-> Unparseable], swallowed[c])

\* the peer closes: a short read raises EOFError and handle() ends
RecvEOF(c) ==
  /\ pc[c] \in {"head", "tail"}
  /\ pc' = [pc EXCEPT ![c] = "closed"]
  /\ peer' = [peer EXCEPT ![c] = NoPeer]
  /\ size' = [size EXCEPT ![c] = 0]
  /\ swallowed' = [swallowed EXCEPT ![c] = 0]
  /\ owed' = [owed EXCEPT ![c] = 0]
  /\ reply' = NoReply
  /\ UNCHANGED <<keys, lock, perms, job, wshut, wfailed>>
  /\ UNCHANGED cfgvars

\* the workers serve the requests the peers send: sent[c] are the frames the
\* peer of connection c chooses from
Serve(sent) ==
  \/ \E c \in Conns : \E f \in sent[c] : HandleOne(c, f)
  \/ \E c \in Conns : \E f \in sent[c] : ListBegin(c, f)
  \/ \E c \in Conns : ListNext(c)
  \/ \E c \in Conns : ListRaise(c)
  \/ \E c \in Conns : ListEnd(c)
  \/ \E c \in Conns : ListIsLocked(c)
  \/ \E c \in Conns : ListPerms(c)
  \/ \E c \in Conns : \E f \in sent[c] : SignBegin(c, f)
  \/ \E c \in Conns : SignIsLocked(c)
  \/ \E c \in Conns : SignPerms(c)
  \/ \E c \in Conns : SignSign(c)
  \/ \E c \in Conns : \E f \in sent[c] : RemoveBegin(c, f)
  \/ \E c \in Conns : RemoveDel(c)
  \/ \E c \in Conns : RemoveMissing(c)

\* the requests that change the key store or the lock when root sends them
AdminFrames ==
  { f \in Frames :
      \/ f.body.code \in {"REMOVE_IDENTITY", "REMOVE_ALL_IDENTITIES"}
      \/ f.body = AddIdentity("ssh-ed25519", 1, TRUE, CommentShort)
      \/ f.body = AddIdentity("ssh-ed25519", 1, TRUE, CommentLong)
      \/ f.body = AddIdentity("ssh-rsa", 2, TRUE, CommentLong)
      \/ f.body = [code |-> "LOCK", passphrase |-> "hunter2"]
      \/ f.body = [code |-> "UNLOCK", passphrase |-> "hunter2"] }

\* connection 1 is any peer's and carries every request; connection 2 is
\* root's and carries the requests that change the shared state
PeersOn ==
  [c \in Conns |-> IF c = 1 THEN Peers ELSE {p \in Peers : p.user = "root"}]

FramesOn == [c \in Conns |-> IF c = 1 THEN Frames ELSE AdminFrames]

Next ==
  \/ \E p \in Policies : Reload(p)
  \/ \E c \in Conns : \E p \in PeersOn[c] : Accept(c, p)
  \/ Serve(FramesOn)
  \/ \E c \in Conns : RecvEOF(c)

Spec == Init /\ [][Next]_vars

\* ------------------------------------------------------------ framing
\* The same workers, with peers that declare more bytes than they send at
\* once.

\* the frames sent on the connection whose peer declares such lengths
FramingFrames ==
  { f \in Frames :
      \/ f.body.code \in {"REQUEST_IDENTITIES", "REMOVE_IDENTITY"}
      \/ f.body = Unparseable
      \/ f.body = AddIdentity("ssh-ed25519", 1, TRUE, CommentShort)
      \/ f.body = SignRequest(BlobA, AuthData, 0) }

FramingOn == [c \in Conns |-> IF c = 1 THEN FramingFrames ELSE AdminFrames]

NextFraming ==
  \/ \E p \in Policies : Reload(p)
  \/ \E c \in Conns : \E p \in PeersOn[c] : Accept(c, p)
  \/ Serve(FramingOn)
  \/ \E n \in OversizeLens : RecvHead(1, n)
  \/ \E f \in FramingFrames : RecvTailFrame(1, f)
  \/ RecvTailRest(1)
  \/ \E c \in Conns : RecvEOF(c)

SpecFraming == Init /\ [][NextFraming]_vars

\* ------------------------------------------------------------ transport
\* The same workers, with reads and writes of the socket that fail.

\* the peer shuts down its reading side: from now on wfile.write() of a
\* response raises OSError
PeerShutdown(c) ==
  /\ pc[c] # "closed"
  /\ ~wshut[c]
  /\ wshut' = [wshut EXCEPT ![c] = TRUE]
  /\ reply' = NoReply
  /\ UNCHANGED <<keys, lock, perms, peer, pc, size, swallowed, owed, job>>
  /\ UNCHANGED wfailed
  /\ UNCHANGED cfgvars

\* rfile.read() raises OSError (the connection was reset): nothing catches
\* it, handle() ends and the server shuts the request down
RecvFail(c) ==
  /\ pc[c] \in {"head", "tail"}
  /\ pc' = [pc EXCEPT ![c] = "closed"]
  /\ peer' = [peer EXCEPT ![c] = NoPeer]
  /\ size' = [size EXCEPT ![c] = 0]
  /\ swallowed' = [swallowed EXCEPT ![c] = 0]
  /\ owed' = [owed EXCEPT ![c] = 0]
  /\ reply' = NoReply
  /\ UNCHANGED <<keys, lock, perms, job, wshut, wfailed>>
  /\ UNCHANGED cfgvars

\* the frames sent on the connection whose transport fails
TransportFrames ==
  { f \in Frames :
      \/ f.body.code = "REQUEST_IDENTITIES"
      \/ f.body = AddIdentity("ssh-ed25519", 1, TRUE, CommentShort)
      \/ f.body = [code |-> "REMOVE_IDENTITY", key_blob |-> BlobA]
      \/ f.body = SignRequest(BlobA, AuthData, 0)
      \/ f.body = [code |-> "LOCK", passphrase |-> "hunter2"]
      \/ f.body = [code |-> "UNLOCK", passphrase |-> "hunter2"]
      \/ f = [len |-> 3, body |-> Unparseable] }

\* the frames root sends meanwhile on the other connection
TransportAdminFrames ==
  { f \in AdminFrames :
      \/ f.body.code = "REMOVE_ALL_IDENTITIES"
      \/ f.body = AddIdentity("ssh-ed25519", 1, TRUE, CommentShort)
      \/ f.body = [code |-> "LOCK", passphrase |-> "hunter2"]
      \/ f.body = [code |-> "UNLOCK", passphrase |-> "hunter2"] }

TransportOn ==
  [c \in Conns |-> IF c = 1 THEN TransportFrames ELSE TransportAdminFrames]

NextTransport ==
  \/ \E p \in Policies : Reload(p)
  \/ \E c \in Conns : \E p \in PeersOn[c] : Accept(c, p)
  \/ Serve(TransportOn)
  \/ PeerShutdown(1)
  \/ RecvFail(1)
  \/ \E c \in Conns : RecvEOF(c)

SpecTransport == Init /\ [][NextTransport]_vars


\* ------------------------------------------------------------ properties
\* The properties read the call recorded in reply, which the step that ends
\* the call sets: reply.keys, reply.lock and reply.perms are the state that
\* step found, keys and lock the state it left, reply.changed what other
\* threads changed between the first step of the call and that one.

IsCall == reply.conn # 0
Req == reply.frame.body
ReqIs(code) == IsCall /\ Req.code = code
ReqFp == ssh_fingerprint(Req.key_blob)
NonRoot == reply.peer.user # "root"
Loaded(fp) == \E i \in 1..Len(reply.keys) : reply.keys[i].fingerprint = fp
PolicyGroups(fp) == PermsGet(reply.perms, fp)
Identity(k) == [key_blob |-> k.key_blob, comment |-> k.comment]
IdentitiesAnswer(ids) == [code |-> "IDENTITIES_ANSWER", message |-> ids]

\* no other thread changed the key store, the lock or the policy during the call
Quiet == reply.changed = {}

C1_Refused ==
  /\ reply.written = <<FAILURE>>
  /\ \A i \in 1..Len(reply.steps) : reply.steps[i] # "sign"

\* C1: a SIGN_REQUEST from a non-root peer whose groups are disjoint from the
\* policy's group set of the requested fingerprint is answered FAILURE and
\* nothing is signed, whether or not the key is loaded or the agent locked:
\* so it is when the policy that held throughout the call is such, and so it
\* is when every policy the call read is such.
C1_AuthorizationHonesty ==
  (ReqIs("SIGN_REQUEST") /\ NonRoot)
  => ( /\ ( /\ "data" \notin reply.changed
            /\ PolicyGroups(ReqFp) \cap reply.peer.groups = {} )
          => C1_Refused
       /\ (\A p \in reply.policies :
             PermsGet(p, ReqFp) \cap reply.peer.groups = {})
          => C1_Refused )

\* C1 happens: a valid request for a loaded key, unlocked, refused on groups
C1_Witness ==
  /\ ReqIs("SIGN_REQUEST")
  /\ NonRoot
  /\ PolicyGroups(ReqFp) \cap reply.peer.groups = {}
  /\ PolicyGroups(ReqFp) # {}
  /\ Loaded(ReqFp)
  /\ ~reply.lock.locked
  /\ ParsesAsSignatureRequest(Req.data)
  /\ reply.policies = {reply.perms}
  /\ reply.written = <<FAILURE>>

\* C2: a request handled from its first step to its last while the lock cell
\* is Locked gets an empty IDENTITIES_ANSWER (REQUEST_IDENTITIES) or FAILURE
\* (SIGN_REQUEST), for every peer, root included, whatever keys and policy
\* are loaded.
C2_LockDominance ==
  (IsCall /\ reply.lock.locked /\ "lock" \notin reply.changed)
  => ( /\ Req.code = "REQUEST_IDENTITIES"
          => reply.written = <<IdentitiesAnswer(<< >>)>>
       /\ Req.code = "SIGN_REQUEST" => reply.written = <<FAILURE>> )

MutatingCodes ==
  {"ADD_IDENTITY", "REMOVE_IDENTITY", "REMOVE_ALL_IDENTITIES", "LOCK", "UNLOCK"}

C3_NonRootRefused ==
  (IsCall /\ NonRoot /\ Req.code \in MutatingCodes)
  => ( /\ reply.written = <<FAILURE>>
       /\ keys = reply.keys
       /\ lock = reply.lock )

C3_OnlyRootChanges ==
  (keys' # keys \/ lock' # lock)
  => (reply'.conn # 0 /\ reply'.peer.user = "root")

\* C3: ADD_IDENTITY, REMOVE_IDENTITY, REMOVE_ALL_IDENTITIES, LOCK and UNLOCK
\* from a peer not named root are answered FAILURE and leave the key store
\* (contents and order) and the lock cell as they were; every step that
\* changes the key store or the lock cell handles a request of a peer named
\* root.
C3_PrivilegedExclusivity ==
  [](C3_NonRootRefused) /\ [][C3_OnlyRootChanges]_vars

\* C3 happens: a non-root peer asks to remove all keys of a store holding some
C3_Witness ==
  /\ ReqIs("REMOVE_ALL_IDENTITIES")
  /\ NonRoot
  /\ reply.keys # << >>
  /\ keys = reply.keys
  /\ reply.written = <<FAILURE>>

C4_Permitted ==
  /\ ParsesAsSignatureRequest(Req.data)
  /\ Loaded(ReqFp)
  /\ ~reply.lock.locked
  /\ (~NonRoot \/ PolicyGroups(ReqFp) \cap reply.peer.groups # {})

\* C4: when no other thread changes the key store, the lock or the policy
\* during the call, a SIGN_REQUEST with a valid payload, for a loaded key,
\* while unlocked, from root or from a peer whose groups meet the policy of
\* the fingerprint, is answered SIGN_RESPONSE with the signature of that
\* loaded key over the request's data and flags; if one of the four
\* conditions is false the answer is FAILURE.
C4_SignExactlyWhenPermitted ==
  (ReqIs("SIGN_REQUEST") /\ Quiet)
  => IF C4_Permitted
     THEN \E i \in 1..Len(reply.keys) :
            /\ reply.keys[i].fingerprint = ReqFp
            /\ reply.written =
                 << [ code |-> "SIGN_RESPONSE",
                      message |-> <<Sign(reply.keys[i], Req.data, Req.flags)>> ] >>
     ELSE reply.written = <<FAILURE>>

\* C4 happens: a non-root peer in a permitted group gets a signature
C4_Witness ==
  /\ ReqIs("SIGN_REQUEST")
  /\ Quiet
  /\ NonRoot
  /\ C4_Permitted
  /\ Len(reply.written) = 1
  /\ reply.written[1].code = "SIGN_RESPONSE"
  /\ reply.written[1].message[1].signer = ReqFp

\* C5: a SIGN_REQUEST whose data is no authentication-request payload is
\* answered FAILURE, and the payload check is the only step taken: no key
\* lookup, no authorization check, no signature, for every peer, key store
\* and lock state.
C5_PayloadStrictness ==
  (ReqIs("SIGN_REQUEST") /\ ~ParsesAsSignatureRequest(Req.data))
  => ( /\ reply.written = <<FAILURE>>
       /\ reply.steps = <<"parse_data">> )

\* C5 happens: root asks an unlocked agent to sign random bytes with a loaded key
C5_Witness ==
  /\ ReqIs("SIGN_REQUEST")
  /\ ~ParsesAsSignatureRequest(Req.data)
  /\ ~NonRoot
  /\ Loaded(ReqFp)
  /\ ~reply.lock.locked
  /\ reply.written = <<FAILURE>>

\* C6: LOCK(p) from root is answered SUCCESS and moves the cell to Locked{p}
\* iff the cell is Unlocked; UNLOCK(p) from root is answered SUCCESS and moves
\* the cell to Unlocked iff the cell is Locked{p}; every other LOCK or UNLOCK
\* is answered FAILURE and leaves the cell and its passphrase unchanged.
C6_LockTransitions ==
  /\ (ReqIs("LOCK") /\ ~NonRoot)
     => IF ~reply.lock.locked
        THEN /\ reply.written = <<SUCCESS>>
             /\ lock = [locked |-> TRUE, pass |-> Req.passphrase]
        ELSE /\ reply.written = <<FAILURE>>
             /\ lock = reply.lock
  /\ (ReqIs("UNLOCK") /\ ~NonRoot)
     => IF reply.lock.locked /\ reply.lock.pass = Req.passphrase
        THEN /\ reply.written = <<SUCCESS>>
             /\ lock = Unlocked
        ELSE /\ reply.written = <<FAILURE>>
             /\ lock = reply.lock

\* C6 happens: root's UNLOCK with the wrong passphrase leaves the agent locked
C6_Witness ==
  /\ ReqIs("UNLOCK")
  /\ ~NonRoot
  /\ reply.lock.locked
  /\ reply.lock.pass # Req.passphrase
  /\ reply.written = <<FAILURE>>
  /\ lock = reply.lock


\* the identities a non-root peer is to be listed: the keys of the store the
\* call found whose policy groups meet the peer's groups, in store order
PermittedIdentities ==
  LET permitted ==
        SelectSeq(reply.keys,
                  LAMBDA k : PolicyGroups(k.fingerprint) \cap reply.peer.groups # {})
  IN [i \in 1..Len(permitted) |-> Identity(permitted[i])]

NoRepeat(ids) ==
  \A i, j \in 1..Len(ids) : i # j => ids[i].key_blob # ids[j].key_blob

\* a successful ADD_IDENTITY appends a new fingerprint at the end of the
\* store and replaces a present one where it stands
C7_InsertionKeepsOrder ==
  (ReqIs("ADD_IDENTITY") /\ reply.written = <<SUCCESS>>)
  => LET k == LoadKey(Req) IN
     IF Loaded(k.fingerprint)
     THEN /\ Len(keys) = Len(reply.keys)
          /\ \A i \in 1..Len(keys) :
               keys[i] = IF reply.keys[i].fingerprint = k.fingerprint
                         THEN k ELSE reply.keys[i]
     ELSE keys = Append(reply.keys, k)

\* C7 as stated: while unlocked and with no change by another thread during
\* the call, REQUEST_IDENTITIES from a non-root peer
\* returns exactly the loaded keys whose policy group set meets the peer's
\* groups, each once, in insertion order; re-adding a present fingerprint
\* replaces the key and does not move it.
C7_ListingAsStated ==
  /\ (ReqIs("REQUEST_IDENTITIES") /\ Quiet /\ NonRoot /\ ~reply.lock.locked)
     => ( /\ reply.written = <<IdentitiesAnswer(PermittedIdentities)>>
          /\ NoRepeat(PermittedIdentities) )
  /\ C7_InsertionKeepsOrder

\* C7 amended: the same listing is the answer when its encoded frame is at
\* most AGENT_MAX_LEN bytes long; a longer listing is answered FAILURE.
C7_ListingWhenItFits ==
  /\ (ReqIs("REQUEST_IDENTITIES") /\ Quiet /\ NonRoot /\ ~reply.lock.locked)
     => ( /\ NoRepeat(PermittedIdentities)
          /\ IF ResponseLen(IdentitiesAnswer(PermittedIdentities)) <= AGENT_MAX_LEN
             THEN reply.written = <<IdentitiesAnswer(PermittedIdentities)>>
             ELSE reply.written = <<FAILURE>> )
  /\ C7_InsertionKeepsOrder

\* C7 happens: a non-root peer is listed two keys, the RSA key that was
\* inserted first ahead of the Ed25519 key
C7_Witness ==
  /\ ReqIs("REQUEST_IDENTITIES")
  /\ Quiet
  /\ NonRoot
  /\ ~reply.lock.locked
  /\ Len(reply.written) = 1
  /\ reply.written[1].code = "IDENTITIES_ANSWER"
  /\ Len(reply.written[1].message) = 2
  /\ reply.written[1].message[1].key_blob = BlobB
  /\ reply.written[1].message[2].key_blob = BlobA

\* C8: after a malformed frame or a header declaring more than AGENT_MAX_LEN
\* bytes the handler answers FAILURE and the connection stays open, and no
\* request frame the peer sends next is read as part of the rejected frame.
C8_ProtocolErrorRecovery ==
  /\ \A c \in Conns : swallowed[c] = 0
  /\ ( IsCall /\ (reply.frame.len > AGENT_MAX_LEN \/ Req = Unparseable) )
     => ( /\ reply.written = <<FAILURE>>
          /\ pc[reply.conn] = "head"
          /\ reply.swallowed = 0 )

\* C9: a header declaring more than AGENT_MAX_LEN bytes is rejected when it
\* is decoded: the worker never waits in the read of such a payload, and the
\* call that rejects the frame has read none of its payload.
C9_OversizeRejectedBeforeRead ==
  /\ \A c \in Conns : pc[c] = "tail" => size[c] <= AGENT_MAX_LEN
  /\ (IsCall /\ reply.frame.len > AGENT_MAX_LEN) => reply.payload_read = 0

\* C10: on every connection each request received is answered by exactly one
\* response frame, written before the worker reads again: no response is
\* owed or in excess in any state, and every call has written one frame and
\* left the worker at the next header, on every dispatch path.
C10_SequentialDiscipline ==
  /\ \A c \in Conns : owed[c] = 0
  /\ IsCall => (Len(reply.written) = 1 /\ pc[reply.conn] = "head")

\* C15: REMOVE_IDENTITY from root for a blob whose fingerprint is not loaded
\* is answered FAILURE and leaves the key store as it was; SIGN_REQUEST with
\* a valid payload for a fingerprint that is not loaded at any time of the
\* call is answered FAILURE for every peer, root included; the connection
\* goes on to the next request.
C15_NotFoundCleanFailure ==
  /\ ( /\ ReqIs("REMOVE_IDENTITY")
       /\ ~NonRoot
       /\ ~Loaded(ReqFp) )
     => ( /\ reply.written = <<FAILURE>>
          /\ keys = reply.keys
          /\ lock = reply.lock
          /\ pc[reply.conn] = "head" )
  /\ ( /\ ReqIs("SIGN_REQUEST")
       /\ ParsesAsSignatureRequest(Req.data)
       /\ ~Loaded(ReqFp)
       /\ "data" \notin reply.changed )
     => ( /\ reply.written = <<FAILURE>>
          /\ keys = reply.keys
          /\ pc[reply.conn] = "head" )

\* C15 happens: root asks to remove a key that is not among the loaded ones
C15_Witness ==
  /\ ReqIs("REMOVE_IDENTITY")
  /\ ~NonRoot
  /\ reply.keys # << >>
  /\ ~Loaded(ReqFp)
  /\ reply.written = <<FAILURE>>
  /\ keys = reply.keys

\* C16: REMOVE_ALL_IDENTITIES from root is answered SUCCESS and leaves the
\* key store empty from every store, an empty one and a locked agent
\* included (so a second REMOVE_ALL_IDENTITIES is answered as the first);
\* the lock cell and the policy cache stay as they were.
C16_IdempotentRemoveAll ==
  (ReqIs("REMOVE_ALL_IDENTITIES") /\ ~NonRoot)
  => ( /\ reply.written = <<SUCCESS>>
       /\ keys = << >>
       /\ lock = reply.lock
       /\ perms = reply.perms )

\* C16 happens: root clears the already empty store of a locked agent
C16_Witness ==
  /\ ReqIs("REMOVE_ALL_IDENTITIES")
  /\ ~NonRoot
  /\ reply.keys = << >>
  /\ reply.lock.locked
  /\ reply.written = <<SUCCESS>>
  /\ keys = << >>

\* the key store a call is to leave: root's successful ADD_IDENTITY,
\* REMOVE_IDENTITY and REMOVE_ALL_IDENTITIES change it, nothing else does
C17_StoreAfterCall ==
  IF ReqIs("ADD_IDENTITY") /\ reply.written = <<SUCCESS>>
  THEN /\ ~NonRoot
       /\ \E i \in 1..Len(keys) :
            /\ keys[i] = LoadKey(Req)
            /\ keys[i].key_blob = [algo |-> Req.key_type, pub |-> Req.key.pub]
       /\ C7_InsertionKeepsOrder
  ELSE IF ReqIs("REMOVE_IDENTITY") /\ reply.written = <<SUCCESS>>
  THEN /\ ~NonRoot
       /\ Loaded(ReqFp)
       /\ keys = SelectSeq(reply.keys, LAMBDA k : k.fingerprint # ReqFp)
  ELSE IF ReqIs("REMOVE_ALL_IDENTITIES") /\ reply.written = <<SUCCESS>>
  THEN ~NonRoot /\ keys = << >>
  ELSE IsCall => keys = reply.keys

\* every key is stored under the fingerprint of its own public-key blob, and
\* no fingerprint is stored twice
C17_StoredUnderOwnFingerprint ==
  /\ \A i \in 1..Len(keys) : keys[i].fingerprint = ssh_fingerprint(keys[i].key_blob)
  /\ \A i, j \in 1..Len(keys) :
       keys[i].fingerprint = keys[j].fingerprint => i = j

\* C17: the key store starts empty and changes only in calls: a successful
\* ADD_IDENTITY (from root) puts the request's key under the fingerprint of
\* its blob, a successful REMOVE_IDENTITY takes out exactly the key of the
\* requested fingerprint and keeps the others in their order, a successful
\* REMOVE_ALL_IDENTITIES empties it, and every other call (an ADD_IDENTITY
\* answered FAILURE among them) leaves it as it was.
C17_StoreTracksRootRequests ==
  /\ [](C17_StoredUnderOwnFingerprint /\ C17_StoreAfterCall)
  /\ [][reply'.conn = 0 => keys' = keys]_vars

\* C17 happens: root removes the first of two loaded keys, the other stays
C17_Witness ==
  /\ ReqIs("REMOVE_IDENTITY")
  /\ reply.written = <<SUCCESS>>
  /\ Len(reply.keys) = 2
  /\ reply.keys[1].fingerprint = ReqFp
  /\ keys = <<reply.keys[2]>>

\* C18: when the frame of the response a handler returned would be longer
\* than AGENT_MAX_LEN, nothing of it is written, one FAILURE frame is written
\* instead and the worker goes on to the next request; no longer frame is
\* ever written.
C18_UnsendableResponseBecomesFailure ==
  /\ ( /\ IsCall
       /\ reply.returned # << >>
       /\ ResponseLen(reply.returned[1]) > AGENT_MAX_LEN )
     => ( /\ reply.written = <<FAILURE>>
          /\ pc[reply.conn] = "head"
          /\ owed[reply.conn] = 0 )
  /\ \A i \in 1..Len(reply.written) :
       ResponseLen(reply.written[i]) <= AGENT_MAX_LEN

\* C18 happens: root's listing of two keys with long comments is answered FAILURE
C18_Witness ==
  /\ ReqIs("REQUEST_IDENTITIES")
  /\ ~NonRoot
  /\ reply.returned # << >>
  /\ reply.returned[1].code = "IDENTITIES_ANSWER"
  /\ Len(reply.returned[1].message) = 2
  /\ ResponseLen(reply.returned[1]) > AGENT_MAX_LEN
  /\ reply.written = <<FAILURE>>
  /\ pc[reply.conn] = "head"

\* root's mutations of the key store are answered and take effect the same
\* locked or unlocked
C19_RootMutations ==
  ~NonRoot
  => ( /\ ( /\ ReqIs("ADD_IDENTITY")
            /\ Req.key_type \in {"ssh-rsa", "ssh-ed25519"}
            /\ Req.key.valid )
          => ( /\ reply.written = <<SUCCESS>>
               /\ \E i \in 1..Len(keys) : keys[i] = LoadKey(Req) )
       /\ (ReqIs("REMOVE_IDENTITY") /\ Loaded(ReqFp))
          => ( /\ reply.written = <<SUCCESS>>
               /\ \A i \in 1..Len(keys) : keys[i].fingerprint # ReqFp )
       /\ ReqIs("REMOVE_ALL_IDENTITIES")
          => (reply.written = <<SUCCESS>> /\ keys = << >>) )

\* the lock cell was Locked when the call began and no LOCK or UNLOCK took
\* effect before it ended
LockedThroughout ==
  reply.lock.locked /\ "lock" \notin reply.changed

\* the lock cell was Unlocked when the call began, and no other thread
\* changed the lock cell or the key store before it ended
UnlockedAndUnchanged ==
  ~reply.lock.locked /\ reply.changed = {}

\* C19: root's ADD_IDENTITY, REMOVE_IDENTITY and REMOVE_ALL_IDENTITIES take
\* effect and are answered SUCCESS while locked as while unlocked; while the
\* agent is locked, root's REQUEST_IDENTITIES returns the empty list and
\* root's SIGN_REQUEST FAILURE; while it is unlocked, root is listed every
\* loaded key and signs with any loaded key, whatever the policy cache
\* holds.
C19_AsStated ==
  /\ C19_RootMutations
  /\ (ReqIs("REQUEST_IDENTITIES") /\ ~NonRoot /\ LockedThroughout)
     => reply.written = <<IdentitiesAnswer(<< >>)>>
  /\ (ReqIs("SIGN_REQUEST") /\ ~NonRoot /\ LockedThroughout)
     => reply.written = <<FAILURE>>
  /\ (ReqIs("REQUEST_IDENTITIES") /\ ~NonRoot /\ UnlockedAndUnchanged)
     => reply.written =
          <<IdentitiesAnswer([i \in 1..Len(reply.keys) |->
                                Identity(reply.keys[i])])>>
  /\ ( /\ ReqIs("SIGN_REQUEST")
       /\ ~NonRoot
       /\ UnlockedAndUnchanged
       /\ ParsesAsSignatureRequest(Req.data)
       /\ Loaded(ReqFp) )
     => ( /\ Len(reply.written) = 1
          /\ reply.written[1].code = "SIGN_RESPONSE"
          /\ reply.written[1].message[1].signer = ReqFp )

\* ------------------------------------------------------------ configuration
\* The files SshAgentConfig reads and the mapping get_key_perms() builds.

\* a *.pub file: its stem and what read_bytes(), split() and b64decode() make
\* of it ("ok", "fields": not three fields, "base64": not base64,
\* "unreadable": the daemon has no permission to read the file, and
\* read_bytes() raises PermissionError, an OSError)
KeyFile(stem, kind, blob) == [stem |-> stem, kind |-> kind, blob |-> blob]

KeyDirs ==
  { <<KeyFile("k1", "ok", BlobA), KeyFile("k2", "ok", BlobB)>>,
    <<KeyFile("k1", "ok", BlobA), KeyFile("a", "ok", BlobB)>>,
    <<KeyFile("k1", "ok", BlobA), KeyFile("k2", "base64", BlobB)>>,
    <<KeyFile("k1", "fields", BlobA), KeyFile("k2", "ok", BlobB)>>,
    <<KeyFile("k1", "ok", BlobA), KeyFile("k2", "unreadable", BlobB)>> }

\* the value of a group in a YAML mapping: None, a list of names, an integer,
\* a string (iterated, it yields its characters) or a mapping (iterated, it
\* yields its keys)
YamlNone == [kind |-> "none", names |-> << >>]
YamlList(names) == [kind |-> "list", names |-> names]
YamlInt == [kind |-> "int", names |-> << >>]
YamlStr(chars) == [kind |-> "str", names |-> chars]
YamlMap(ks) == [kind |-> "map", names |-> ks]

\* a *.y*ml file: "unreadable" (read_bytes() raises OSError), "invalid"
\* (safe_load() raises YAMLError), "notmapping" (the document is a list or a
\* scalar) or "mapping", with its (group, value) items
AuthFile(kind, entries) == [kind |-> kind, entries |-> entries]
Entry(group, value) == [group |-> group, value |-> value]

AuthFiles ==
  { AuthFile("mapping", << Entry("ops", YamlList(<<"k1">>)) >>),
    AuthFile("mapping", << Entry("guests", YamlList(<<"k2", "k9">>)),
                           Entry("deploy", YamlNone) >>),
    AuthFile("unreadable", << >>),
    AuthFile("invalid", << >>),
    AuthFile("notmapping", << >>),
    AuthFile("mapping", << Entry("ops", YamlList(<<"k2">>)),
                           Entry("deploy", YamlInt) >>),
    AuthFile("mapping", << Entry("guests", YamlStr(<<"a">>)) >>),
    AuthFile("mapping", << Entry("guests", YamlMap(<<"k1">>)) >>) }

\* the file of that content under a name of the directory
AuthFileAs(name, file) ==
  [name |-> name, kind |-> file.kind, entries |-> file.entries]

\* the authorization directories: up to two files, a.yaml and b.yaml, in
\* glob order
AuthDirs ==
  { << >> } \cup { <<AuthFileAs("a", f)>> : f \in AuthFiles }
  \cup { <<AuthFileAs("a", f), AuthFileAs("b", g)>> :
           f \in AuthFiles, g \in AuthFiles }

\* one round of the loop of get_key_fingerprints() (lines 93-100) on a
\* file: keymap, or that read_bytes() raised OSError, which nothing catches
get_key_fingerprints_file(file, keymap) ==
  IF file.kind \in {"unreadable", "missing"}
  THEN [raised |-> TRUE, keymap |-> keymap]
  ELSE IF file.kind \in {"fields", "base64"}
       THEN [raised |-> FALSE, keymap |-> keymap]
  ELSE [ raised |-> FALSE,
         keymap |-> { m \in keymap : m[1] # file.stem }
                      \cup { <<file.stem, ssh_fingerprint(file.blob)>> } ]

\* the loop of get_key_fingerprints() from file i on: keymap, or that an
\* exception left the function
RECURSIVE get_key_fingerprints_from(_, _, _)
get_key_fingerprints_from(kd, i, keymap) ==
  IF i > Len(kd) THEN [raised |-> FALSE, keymap |-> keymap]
  ELSE LET r == get_key_fingerprints_file(kd[i], keymap) IN
       IF r.raised THEN r
       ELSE get_key_fingerprints_from(kd, i + 1, r.keymap)

get_key_fingerprints(kd) == get_key_fingerprints_from(kd, 1, {})

\* for key in keys: of one group, from name i on
RECURSIVE get_key_perms_names(_, _, _, _, _)
get_key_perms_names(group, names, i, fingerprints, key_perms) ==
  IF i > Len(names) THEN key_perms
  ELSE IF \E m \in fingerprints : m[1] = names[i]
       THEN LET fingerprint == (CHOOSE m \in fingerprints : m[1] = names[i])[2]
            IN get_key_perms_names(group, names, i + 1, fingerprints,
                                   key_perms \cup { <<fingerprint, group>> })
       ELSE get_key_perms_names(group, names, i + 1, fingerprints, key_perms)

\* for group, keys in data: of one file, from item i on
RECURSIVE get_key_perms_items(_, _, _, _)
get_key_perms_items(data, i, fingerprints, key_perms) ==
  IF i > Len(data) THEN [raised |-> FALSE, perms |-> key_perms]
  ELSE IF data[i].value.kind = "none"
       THEN get_key_perms_items(data, i + 1, fingerprints, key_perms)
  ELSE IF data[i].value.kind = "int" THEN [raised |-> TRUE, perms |-> key_perms]
  ELSE get_key_perms_items(
         data, i + 1, fingerprints,
         get_key_perms_names(data[i].group, data[i].value.names, 1,
                             fingerprints, key_perms))

\* one round of the loop of get_key_perms() (lines 112-131) on a file: a
\* file that cannot be read or is no mapping is skipped
get_key_perms_file(file, fingerprints, key_perms) ==
  IF file.kind # "mapping" THEN [raised |-> FALSE, perms |-> key_perms]
  ELSE get_key_perms_items(file.entries, 1, fingerprints, key_perms)

\* lines 116, 119 and 128: one round of the loop of get_key_perms() on a
\* file logs that the file cannot be read or parsed, or that a name is that
\* of no key
get_key_perms_logs(file, fingerprints) ==
  \/ file.kind # "mapping"
  \/ \E j \in 1..Len(file.entries) :
       \E n \in 1..Len(file.entries[j].value.names) :
         \A m \in fingerprints : m[1] # file.entries[j].value.names[n]

\* for fname in auth_dir.glob('*.y*ml'): from file i on
RECURSIVE get_key_perms_files(_, _, _, _)
get_key_perms_files(ad, i, fingerprints, key_perms) ==
  IF i > Len(ad) THEN [raised |-> FALSE, perms |-> key_perms]
  ELSE LET r == get_key_perms_file(ad[i], fingerprints, key_perms)
       IN IF r.raised THEN r
          ELSE get_key_perms_files(ad, i + 1, fingerprints, r.perms)

\* get_key_perms(auth_dir, key_dir) on files that stay as they are: the
\* mapping, or that it raised
get_key_perms(ad, kd) ==
  LET fingerprints == get_key_fingerprints(kd) IN
  IF fingerprints.raised THEN [raised |-> TRUE, perms |-> {}]
  ELSE get_key_perms_files(ad, 1, fingerprints.keymap, {})

\* reload() reads the files one after another, and assigns config.perms
\* when the last one is read; meanwhile the operator rewrites files, and a
\* further SIGHUP runs sighandle() again, inside the call under way.  The
\* locals of one call:
\*   at          where the main thread was when the call was made: "main"
\*               (line 478); for sighandle() called inside serve_forever(),
\*               "serve_forever" (waiting for a connection), "get_request"
\*               or "process_request" (inside the try statements
\*               socketserver accepts a connection in) or "reload"
\*               (inside the reload() call below it)
\*   pos         the point it comes to next: "glob_keys" (line 93, the
\*               first next() of the glob), "read_key" (line 95),
\*               "glob_auth" (line 112, the first next() of the glob),
\*               "read_auth" (line 112, the next file of the listing),
\*               "open_auth" (line 114, inside the try) or "assign"
\*               (line 77)
\*   inside      the calls and try statements that catch exceptions and
\*               that it passes on its way to pos (see ReloadAt)
\*   names       the stems of the *.pub files key_dir.glob() listed
\*   auth_names  the names of the *.y*ml files auth_dir.glob() listed
\*   i           the file of the listing that is read next
\*   keymap      the name-to-fingerprint map so far (fingerprints, once
\*               get_key_fingerprints() has returned)
\*   key_perms   the mapping so far
\*   still       no file was rewritten since the call listed key_dir
\*   caught      an exception of a sighandle() call nested in it was caught
\*               inside it
NewReload(at) ==
  [ at |-> at, pos |-> "glob_keys",
    inside |-> (IF at = "main" THEN {} ELSE {"logger"})
                 \cup {"is_dir", "select_from", "glob"},
    names |-> << >>, auth_names |-> << >>,
    i |-> 0, keymap |-> {}, key_perms |-> {}, still |-> TRUE,
    caught |-> FALSE ]

\* the nested calls of sighandle() that are followed
MaxReloads == 2

\* where the main thread is inside serve_forever() when SIGHUP comes
MainAt == {"serve_forever", "get_request", "process_request"}

\* where the main thread is inside a reload() call when SIGHUP comes.  The
\* call stays there until the sighandle() call nested in it ends, so that
\* the place is drawn when that call raises:
\*   "reload"       in the code of daemon.py, outside every try statement
\*                  that catches what sighandle() raises
\*   "logger"       inside a logger call (lines 83, 91, 98, 101, 110, 116,
\*                  119, 128): the try of logging's Handler.emit()
\*   "is_dir"       inside key_dir.is_dir() or auth_dir.is_dir() (lines 90,
\*                  109): the try of pathlib's Path.is_dir()
\*   "select_from"  inside the first next() of glob() (lines 93, 112), in
\*                  the is_dir() call pathlib's select_from() begins with
\*   "glob"         inside a next() of glob() (lines 93, 112), in the try
\*                  pathlib's _WildcardSelector lists and yields in
\*   "try"          inside the try of lines 113-114
ReloadAt == {"reload", "logger", "is_dir", "select_from", "glob", "try"}

\* the places of the reload() call with locals f on its way to f.pos
Places(f) ==
  IF f.pos = "open_auth" THEN {"try"} ELSE f.inside \cup {"reload"}

\* what read_bytes() raises: of a file removed since glob() listed it
\* FileNotFoundError, of a file the daemon may not read PermissionError
OSErrors == {"FileNotFoundError", "PermissionError"}

\* the file key_dir.glob() listed under stem, as read_bytes() finds it
KeyFileNamed(kd, stem) ==
  IF \E k \in 1..Len(kd) : kd[k].stem = stem
  THEN kd[CHOOSE k \in 1..Len(kd) : kd[k].stem = stem]
  ELSE KeyFile(stem, "missing", BlobA)

\* the file auth_dir.glob() listed under name, as read_bytes() finds it
AuthFileNamed(ad, name) ==
  IF \E k \in 1..Len(ad) : ad[k].name = name
  THEN ad[CHOOSE k \in 1..Len(ad) : ad[k].name = name]
  ELSE AuthFileAs(name, AuthFile("unreadable", << >>))

\* line 101 and lines 109-112: the loop over the *.pub files has ended,
\* the call is on its way to the listing of auth_dir
KeysDone(f) ==
  [ f EXCEPT !.pos = "glob_auth",
             !.inside = {"logger", "is_dir", "select_from", "glob"} ]

\* the call with locals f goes on to the next file of auth_dir's listing,
\* or to the return of get_key_perms(); logs: a logger call is on its way
\* (lines 116, 119, 128)
NextAuth(f, logs) ==
  [ f EXCEPT !.i = @ + 1,
             !.pos = IF f.i >= Len(f.auth_names) THEN "assign"
                     ELSE "read_auth",
             !.inside = {"glob"} \cup (IF logs THEN {"logger"} ELSE {}) ]

\* the glob() the call with locals f is inside yields no further file: the
\* loop of line 93 or of line 112 ends
EndLoop(f) ==
  IF f.pos \in {"glob_keys", "read_key"} THEN KeysDone(f)
  ELSE [f EXCEPT !.pos = "assign", !.inside = {}]

\* the reload() call that a signal interrupted at the place at catches
\* error when it leaves the sighandle() call nested in it:
\* Handler.emit() catches every Exception; Path.is_dir() the OSError of a
\* missing file; _WildcardSelector._select_from() PermissionError; line 115
\* OSError
ReloadCatches(at, error) ==
  \/ at = "logger"
  \/ at \in {"is_dir", "select_from"} /\ error = "FileNotFoundError"
  \/ at = "glob" /\ error = "PermissionError"
  \/ at = "try" /\ error \in OSErrors

\* the call with locals f after it caught an exception at the place at:
\*   "logger"       the record is dropped, the call goes on
\*   "is_dir"       is_dir() returns False, line 91 or 110 logs 'is not a
\*                  directory', the call goes on to glob()
\*   "select_from"  the directory is taken for none and glob() yields
\*                  nothing
\*   "glob"         the generator returns and glob() yields no further
\*                  file
\*   "try"          line 116 logs 'Unable to read' for the file the call
\*                  was about to read, and the loop goes on to the next
GoesOn(f, at) ==
  LET g == [f EXCEPT !.caught = TRUE] IN
  IF at = "logger" THEN g
  ELSE IF at = "is_dir"
  THEN [g EXCEPT !.inside = (@ \ {"is_dir"}) \cup {"logger"}]
  ELSE IF at = "try" THEN NextAuth(g, TRUE)
  ELSE EndLoop(g)

\* socketserver's _handle_request_noblock() catches what leaves sighandle():
\* OSError around get_request(), any Exception around process_request()
ServerCatches(at, error) ==
  \/ at = "process_request"
  \/ at = "get_request" /\ error \in OSErrors

\* error leaves the innermost call of stack, the signal having interrupted
\* call k of it at places[k]: the calls that are left, and whether the
\* exception ends main()
RECURSIVE Unwind(_, _, _)
Unwind(stack, error, places) ==
  LET f == stack[Len(stack)]
      rest == SubSeq(stack, 1, Len(stack) - 1)
  IN IF rest = << >>
     THEN [reloads |-> << >>, ends |-> ~ServerCatches(f.at, error)]
     ELSE IF ReloadCatches(places[Len(rest)], error)
     THEN [ reloads |->
              [rest EXCEPT ![Len(rest)] = GoesOn(@, places[Len(rest)])],
            ends |-> FALSE ]
     ELSE Unwind(rest, error, places)

\* the innermost reload() call goes on with locals f
ReloadStep(f) ==
  /\ reloads' = [reloads EXCEPT ![Len(reloads)] = f]
  /\ UNCHANGED <<keys, lock, perms, peer, pc, size, swallowed, owed, reply>>
  /\ UNCHANGED <<job, wshut, wfailed, key_dir, auth_dir, built, daemon>>

\* error leaves get_key_perms(), reload() and sighandle().  The reload()
\* call the signal interrupted catches it when it is inside a try that
\* catches it, of daemon.py, pathlib or logging, and goes on as that try
\* tells.  socketserver catches it when the signal came while a
\* connection was being accepted: it logs the error, shuts that connection
\* down and serves on.  Nothing else catches it, at start-up or inside
\* serve_forever(), and main() ends.  config.perms stays as it was.
ReloadRaise(error) ==
  /\ \E places \in [1..(Len(reloads) - 1) -> ReloadAt] :
       /\ \A k \in 1..(Len(reloads) - 1) : places[k] \in Places(reloads[k])
       /\ LET u == Unwind(reloads, error, places) IN
          /\ reloads' = u.reloads
          /\ daemon' = IF u.ends THEN "terminated" ELSE daemon
  /\ built' = [ called |-> FALSE, still |-> FALSE, caught |-> FALSE,
                 raised |-> TRUE ]
  /\ UNCHANGED <<keys, lock, perms, peer, pc, size, swallowed, owed, reply>>
  /\ UNCHANGED <<job, wshut, wfailed, key_dir, auth_dir>>

\* SshAgentConfig(auth_dir, key_dir) in main(): the first reload() is
\* entered; config.perms is not assigned yet
InitConfig ==
  /\ keys = << >>
  /\ lock = Unlocked
  /\ perms = {}
  /\ peer = [c \in Conns |-> NoPeer]
  /\ pc = [c \in Conns |-> "closed"]
  /\ size = [c \in Conns |-> 0]
  /\ swallowed = [c \in Conns |-> 0]
  /\ owed = [c \in Conns |-> 0]
  /\ reply = NoReply
  /\ job = [c \in Conns |-> NoJob]
  /\ wshut = [c \in Conns |-> FALSE]
  /\ wfailed = [c \in Conns |-> FALSE]
  /\ key_dir \in KeyDirs
  /\ auth_dir \in AuthDirs
  /\ built = NotBuilt
  /\ daemon = "starting"
  /\ reloads = <<NewReload("main")>>

\* the directories the operator's rewrites are drawn from
RewriteKeyDirs ==
  { <<KeyFile("k1", "ok", BlobA), KeyFile("k2", "ok", BlobB)>>,
    <<KeyFile("k1", "ok", BlobA), KeyFile("k2", "unreadable", BlobB)>>,
    <<KeyFile("k1", "ok", BlobA), KeyFile("a", "ok", BlobB)>> }

RewriteAuthDirs ==
  {
    << AuthFileAs("a", AuthFile("mapping",
                                << Entry("ops", YamlList(<<"k1">>)) >>)) >>,
    << AuthFileAs("a", AuthFile("mapping",
                                << Entry("ops", YamlList(<<"k2">>)),
                                   Entry("deploy", YamlInt) >>)) >>,
    << AuthFileAs("a", AuthFile("mapping",
                                << Entry("ops", YamlList(<<"k1">>)) >>)),
       AuthFileAs("b", AuthFile("mapping",
                                << Entry("guests", YamlList(<<"k2", "k9">>)),
                                   Entry("deploy", YamlNone) >>)) >> }

\* the operator rewrites files of the two directories; the reload() calls
\* that have begun to read are no longer reading still files
WriteFiles(kd, ad) ==
  /\ daemon \notin {"terminated", "killed"}
  /\ <<kd, ad>> # <<key_dir, auth_dir>>
  /\ key_dir' = kd
  /\ auth_dir' = ad
  /\ built' = NotBuilt
  /\ reloads' = [ k \in 1..Len(reloads) |->
                    IF reloads[k].pos = "glob_keys" THEN reloads[k]
                    ELSE [reloads[k] EXCEPT !.still = FALSE] ]
  /\ UNCHANGED <<keys, lock, perms, peer, pc, size, swallowed, owed, reply>>
  /\ UNCHANGED <<job, wshut, wfailed, daemon>>

\* SIGHUP before line 479 has installed sighandle: the signal's default
\* action ends the process
SighupDefault ==
  /\ daemon \in {"starting", "configured"}
  /\ daemon' = "killed"
  /\ reloads' = << >>
  /\ UNCHANGED <<keys, lock, perms, peer, pc, size, swallowed, owed, reply>>
  /\ UNCHANGED <<job, wshut, wfailed, key_dir, auth_dir, built>>

\* line 479: signal.signal(signal.SIGHUP, config.sighandle); main() goes
\* on to serve_forever()
InstallSighandle ==
  /\ daemon = "configured"
  /\ daemon' = "serving"
  /\ UNCHANGED <<keys, lock, perms, peer, pc, size, swallowed, owed, reply>>
  /\ UNCHANGED <<job, wshut, wfailed, key_dir, auth_dir, built, reloads>>

\* SIGHUP: sighandle() is called in the main thread, which is at some point
\* of serve_forever() or inside a reload() call under way, and enters
\* reload()
Sighup(at) ==
  /\ daemon = "serving"
  /\ Len(reloads) < MaxReloads
  /\ IF reloads = << >> THEN at \in MainAt
     ELSE at = "reload"
  /\ reloads' = Append(reloads, NewReload(at))
  /\ UNCHANGED <<keys, lock, perms, peer, pc, size, swallowed, owed, reply>>
  /\ UNCHANGED <<job, wshut, wfailed, key_dir, auth_dir, built, daemon>>

\* line 93: key_dir.glob('*.pub') lists the files
GlobKeys ==
  /\ reloads # << >>
  /\ LET f == reloads[Len(reloads)]
         g == [ f EXCEPT
                  !.names = [k \in 1..Len(key_dir) |-> key_dir[k].stem],
                  !.i = 1,
                  !.pos = "read_key",
                  !.inside = {"glob"} ]
     IN /\ f.pos = "glob_keys"
        /\ ReloadStep(IF key_dir = << >> THEN KeysDone(g) ELSE g)

\* lines 95-100: the next *.pub file is read and parsed (line 98 logs one
\* that does not parse); after the last one get_key_fingerprints() returns
\* keymap
ReadKey ==
  /\ reloads # << >>
  /\ LET f == reloads[Len(reloads)] IN
     /\ f.pos = "read_key"
     /\ LET file == KeyFileNamed(key_dir, f.names[f.i])
            r == get_key_fingerprints_file(file, f.keymap)
            g == [ f EXCEPT
                     !.keymap = r.keymap,
                     !.i = @ + 1,
                     !.inside = {"glob"} \cup (IF file.kind = "ok" THEN {}
                                               ELSE {"logger"}) ]
        IN IF r.raised
           THEN ReloadRaise(IF file.kind = "missing" THEN "FileNotFoundError"
                            ELSE "PermissionError")
           ELSE ReloadStep(IF f.i = Len(f.names) THEN KeysDone(g) ELSE g)

\* line 112: auth_dir.glob('*.y*ml') lists the files
GlobAuth ==
  /\ reloads # << >>
  /\ LET f == reloads[Len(reloads)] IN
     /\ f.pos = "glob_auth"
     /\ ReloadStep([ f EXCEPT
                       !.auth_names =
                          [k \in 1..Len(auth_dir) |-> auth_dir[k].name],
                       !.i = 1,
                       !.pos = IF auth_dir = << >> THEN "assign"
                               ELSE "read_auth",
                       !.inside = {"glob"} ])

\* lines 112-113: the loop takes the next listed file and enters the try
OpenAuth ==
  /\ reloads # << >>
  /\ LET f == reloads[Len(reloads)] IN
     /\ f.pos = "read_auth"
     /\ ReloadStep([f EXCEPT !.pos = "open_auth"])

\* lines 114-131: the file is read and its grants are added; after the last
\* one get_key_perms() returns key_perms
ReadAuth ==
  /\ reloads # << >>
  /\ LET f == reloads[Len(reloads)] IN
     /\ f.pos = "open_auth"
     /\ LET file == AuthFileNamed(auth_dir, f.auth_names[f.i])
            r == get_key_perms_file(file, f.keymap, f.key_perms)
        IN IF r.raised THEN ReloadRaise("TypeError")
           ELSE ReloadStep(NextAuth([f EXCEPT !.key_perms = r.perms],
                                    get_key_perms_logs(file, f.keymap)))

\* line 77: self.perms is assigned and reload() returns, to main() at
\* start-up, to serve_forever() or to the reload() call that the signal
\* interrupted
Publish ==
  /\ reloads # << >>
  /\ LET f == reloads[Len(reloads)] IN
     /\ f.pos = "assign"
     /\ perms' = f.key_perms
     /\ built' = [ called |-> TRUE, still |-> f.still, caught |-> f.caught,
                    raised |-> FALSE ]
     /\ reloads' = SubSeq(reloads, 1, Len(reloads) - 1)
     /\ daemon' = IF daemon = "starting" THEN "configured" ELSE daemon
  /\ UNCHANGED <<keys, lock, peer, pc, size, swallowed, owed, reply>>
  /\ UNCHANGED <<job, wshut, wfailed, key_dir, auth_dir>>

NextConfig ==
  \/ \E kd \in RewriteKeyDirs, ad \in RewriteAuthDirs : WriteFiles(kd, ad)
  \/ SighupDefault
  \/ InstallSighandle
  \/ \E at \in MainAt \cup {"reload"} : Sighup(at)
  \/ GlobKeys
  \/ ReadKey
  \/ GlobAuth
  \/ OpenAuth
  \/ ReadAuth
  \/ Publish

SpecConfig == InitConfig /\ [][NextConfig]_vars

\* ------------------------------------------------------------ properties
\* of the calls that other threads interleave with, of the configuration and
\* of the transport.

\* the worker of connection c takes from the iterator a key that is in the
\* store, and appends to its list the identity of the key it took
C11_ListsWhatItTook(c) ==
  /\ (job'[c].key # job[c].key /\ job'[c].key # << >>)
     => \E i \in 1..Len(keys) : keys[i] = job'[c].key[1]
  /\ (job[c].op = "list" /\ job'[c].op = "list"
        /\ job'[c].identities # job[c].identities)
     => ( /\ job[c].key # << >>
          /\ job'[c].identities = Append(job[c].identities,
                                         Identity(job[c].key[1])) )

\* C11: a REQUEST_IDENTITIES call during which other connections add, remove
\* or clear keys returns an IDENTITIES_ANSWER, is answered and leaves its
\* connection open; no identity is listed twice, and every identity listed
\* is that of a key the call took from the store.
C11_ListingSnapshot ==
  /\ []( ReqIs("REQUEST_IDENTITIES")
         => ( /\ reply.returned # << >>
              /\ reply.returned[1].code = "IDENTITIES_ANSWER"
              /\ NoRepeat(reply.returned[1].message)
              /\ Len(reply.written) = 1
              /\ pc[reply.conn] = "head" ) )
  /\ [][\A c \in Conns : C11_ListsWhatItTook(c)]_vars

\* C12: with reloads running between the steps of a handler, all the
\* authorization checks of one call read one mapping from config.perms:
\* never some keys by the mapping of before a reload and others by the
\* mapping of after it.
C12_PolicySnapshotPerCall ==
  /\ \A c \in Conns : Cardinality(job[c].policies) <= 1
  /\ Cardinality(reply.policies) <= 1

\* C20: a signature is made only while the agent is unlocked and the key of
\* the requested fingerprint is in the key store: once a LOCK or a removal of
\* the key has been answered SUCCESS (and until an UNLOCK succeeds, or the
\* fingerprint is added again) no worker signs with it, a worker that had
\* already looked the key up and passed is_allowed() included.
C20_NoSignatureAfterLockOrRemoval ==
  ( /\ ReqIs("SIGN_REQUEST")
    /\ \E i \in 1..Len(reply.steps) : reply.steps[i] = "sign" )
  => ( /\ ~reply.lock.locked
       /\ Loaded(ReqFp) )

\* a file as the specification wants it: a mapping of groups to lists of key
\* names (a group may be left empty)
WellFormed(file) ==
  /\ file.kind = "mapping"
  /\ \A i \in 1..Len(file.entries) :
       file.entries[i].value.kind \in {"list", "none"}

\* a *.pub file that parses as one public-key line
KeyFileParses(file) == file.kind = "ok"

\* the (fingerprint, group) grants of the well-formed files of a directory,
\* over the names of the key files that parse
WellFormedGrants(kd, ad) ==
  { <<ssh_fingerprint(kd[k].blob), ad[i].entries[j].group>> :
      <<k, i, j, n>> \in
        { t \in (1..Len(kd)) \X (1..Len(ad)) \X (1..2) \X (1..2) :
            /\ WellFormed(ad[t[2]])
            /\ KeyFileParses(kd[t[1]])
            /\ t[3] <= Len(ad[t[2]].entries)
            /\ t[4] <= Len(ad[t[2]].entries[t[3]].value.names)
            /\ ad[t[2]].entries[t[3]].value.names[t[4]] = kd[t[1]].stem } }

\* a reload() during which the files stay as they are, and which catches
\* no exception of a call nested in it, assigns what get_key_perms() makes
\* of them
StillReload ==
  (built.called /\ built.still /\ ~built.caught)
    => perms = get_key_perms(auth_dir, key_dir).perms

\* C13: whatever files are malformed, no rebuild raises or aborts, none
\* ends the daemon, and the cache published by a rebuild that read these
\* files holds exactly the (fingerprint, group) grants of the well-formed
\* ones, names of no key file skipped.
C13_BadFileDoesNotPoison ==
  /\ daemon # "terminated"
  /\ ~built.raised
  /\ (built.called /\ built.still)
       => perms = WellFormedGrants(key_dir, auth_dir)

\* C14: a connection on which a socket read or the write of a response has
\* failed is served no longer: the worker is not back at the read of the
\* next request, and no request is handled on it after the failure.
C14_TransportErrorsClose ==
  /\ \A c \in Conns : wfailed[c] => pc[c] = "closed"
  /\ IsCall => (wfailed[reply.conn] => pc[reply.conn] = "closed")

====

